---- MODULE Spec2Model ----
(***************************************************************************)
(* State-machine model of the LocationTracker view                         *)
(* (src/components/LocationTracker.tsx).                                   *)
(*                                                                         *)
(* The view is a React function component.  Its state is the four useState *)
(* cells (location, isLoading, map, marker).  Every handler is a closure   *)
(* created by a render, so it reads the values of map and marker of the    *)
(* render that created it, not the values current when it runs; the model  *)
(* stores those captured values with each in-flight operation.             *)
(*                                                                         *)
(* Nullable values are written Null (<<>>) and Some(v) (<<v>>); object     *)
(* handles (map, marker) are positive identifiers, NoHandle standing for   *)
(* null.  Coordinates are integers in units of 1e-4 degree.  The localized *)
(* message strings of the source are rendered by ASCII glosses.            *)
(***************************************************************************)
EXTENDS Integers, Sequences, FiniteSets, TLC

\* ------------------------------------------------------------------ bounds
\* Number of times the action control is pressed in one behaviour.
MaxClicks == 3

\* ------------------------------------------------------- platform constants
PERMISSION_DENIED == 1
POSITION_UNAVAILABLE == 2
TIMEOUT == 3
\* Any other code the platform may report (handled by the default branch).
OTHER_CODE == 4
ErrorCodes == {PERMISSION_DENIED, POSITION_UNAVAILABLE, TIMEOUT, OTHER_CODE}

DefaultZoom == 15
FixZoom == 17
DefaultCenter == [lat |-> 356762, lng |-> 1396503]

\* ------------------------------------------------------------ value helpers
Null == <<>>
Some(v) == <<v>>
NoHandle == 0

\* JavaScript truthiness of a nullable number (NaN is not modelled).
Truthy(v) == v /= Null /\ v[1] /= 0

\* ------------------------------------------------------------------ strings
MsgUnsupported == "browser does not support geolocation"
MsgPrefix == "failed to get location: "
MsgPermissionDenied == "use of location was denied"
MsgPositionUnavailable == "location is unavailable"
MsgTimeout == "timed out"
MsgUnknown == "an unknown error occurred"
MsgAddressNotFound == "address not found"
MsgAddressFailed == "failed to get address"

\* ------------------------------------------------------------------- inputs
\* Position fixes the platform may deliver: one with every optional field,
\* one on the equator with the optional fields null, one on the prime
\* meridian.
Fixes ==
  { [latitude |-> 356895, longitude |-> 1396917, accuracy |-> 5,
     altitude |-> Some(40), altitudeAccuracy |-> Some(3),
     heading |-> Some(90), speed |-> Some(1), timestamp |-> 1000],
    [latitude |-> 0, longitude |-> 1396917, accuracy |-> 20,
     altitude |-> Null, altitudeAccuracy |-> Null,
     heading |-> Null, speed |-> Null, timestamp |-> 2000],
    [latitude |-> 515074, longitude |-> 0, accuracy |-> 12,
     altitude |-> Some(11), altitudeAccuracy |-> Null,
     heading |-> Null, speed |-> Some(0), timestamp |-> 3000] }

\* Result lists (formatted addresses) the geocoding service may answer with.
GeocodeResponses == { <<>>, <<"1 Chome Shinjuku">>, <<"Equator Rd", "1 Chome Shinjuku">> }

\* Outcomes of one geocoder.geocode call: a response, or a raised error.
GeocodeOutcomes ==
  { [kind |-> "results", results |-> r] : r \in GeocodeResponses }
    \cup { [kind |-> "raise", results |-> <<>>] }

\* `new google.maps.Geocoder()` evaluated before the SDK has defined `google`.
SdkMissing == [kind |-> "noSdk", results |-> <<>>]

VARIABLES
  location,             \* useState<LocationData>
  isLoading,            \* useState(false)
  map,                  \* useState<google.maps.Map | null>
  marker,               \* useState<google.maps.Marker | null>
  geolocationSupported, \* navigator.geolocation is present
  sdkLoaded,            \* the global `google` is defined
  effectDue,            \* runs of the [map] effect React still owes
  loads,                \* loader.load() promises in flight: the map value
                        \* captured by the closure of each
  maps,                 \* google.maps.Map objects: id -> [center, zoom]
  attached,             \* markers currently attached to a map
  markersCreated,       \* number of google.maps.Marker objects constructed
  requests,             \* getCurrentPosition requests in flight
  clicks,               \* presses of the action control so far
  positionRequests,     \* calls of navigator.geolocation.getCurrentPosition
  geocodeCalls,         \* calls of geocoder.geocode
  last                  \* record of the most recent handler run (history)

vars == <<location, isLoading, map, marker, geolocationSupported, sdkLoaded,
          effectDue, loads, maps, attached, markersCreated, requests, clicks,
          positionRequests, geocodeCalls, last>>

InitialLocation ==
  [latitude |-> Null, longitude |-> Null, accuracy |-> Null, altitude |-> Null,
   altitudeAccuracy |-> Null, heading |-> Null, speed |-> Null,
   timestamp |-> Null, address |-> Null, error |-> Null]

AnyFix == CHOOSE f \in Fixes : f.timestamp = 1000

NoRun ==
  [kind |-> "none", id |-> 0, code |-> 0, before |-> InitialLocation,
   fix |-> AnyFix, outcome |-> SdkMissing, calls |-> 0, address |-> "",
   capMap |-> NoHandle, capMarker |-> NoHandle, mapAtCompletion |-> NoHandle]

\* The state after the first render.  The mount effect is owed once, or
\* twice when React StrictMode re-runs mount effects (development builds).
Init ==
  /\ location = InitialLocation
  /\ isLoading = FALSE
  /\ map = NoHandle
  /\ marker = NoHandle
  /\ geolocationSupported \in BOOLEAN
  /\ sdkLoaded = FALSE
  /\ effectDue \in {1, 2}
  /\ loads = <<>>
  /\ maps = <<>>
  /\ attached = {}
  /\ markersCreated = 0
  /\ requests = {}
  /\ clicks = 0
  /\ positionRequests = 0
  /\ geocodeCalls = 0
  /\ last = NoRun

\* ------------------------------------------------------------ map creation
\* document.getElementById("map"): the element is rendered on every render.
mapElement == TRUE

\* useEffect(() => { loader.load().then(...) }, [map]) : the effect body.
EffectFire ==
  /\ effectDue > 0
  /\ effectDue' = effectDue - 1
  /\ loads' = Append(loads, map)
  /\ UNCHANGED <<location, isLoading, map, marker, geolocationSupported,
                 sdkLoaded, maps, attached, markersCreated, requests, clicks,
                 positionRequests, geocodeCalls, last>>

RemoveAt(s, k) == [i \in 1..(Len(s) - 1) |-> IF i < k THEN s[i] ELSE s[i + 1]]

\* The guard of the then-callback, on the map value its closure captured.
ShouldCreateMap(capturedMap) == mapElement /\ capturedMap = NoHandle

\* loader.load() resolves and its then-callback runs.
LoadComplete(k) ==
  /\ k \in 1..Len(loads)
  /\ sdkLoaded' = TRUE
  /\ loads' = RemoveAt(loads, k)
  /\ IF ShouldCreateMap(loads[k])
       THEN /\ maps' = Append(maps, [center |-> DefaultCenter, zoom |-> DefaultZoom])
            /\ map' = Len(maps) + 1
            /\ effectDue' = effectDue + 1
       ELSE UNCHANGED <<maps, map, effectDue>>
  /\ UNCHANGED <<location, isLoading, marker, geolocationSupported, attached,
                 markersCreated, requests, clicks, positionRequests,
                 geocodeCalls, last>>

\* ----------------------------------------------------------------- request
\* <button disabled={isLoading}>
ButtonNeverDisabled == FALSE
ButtonDisabled == isLoading

\* if (!navigator.geolocation) { ... return; }
UnsupportedBranchStillLoading ==
  /\ location' = [location EXCEPT !.error = Some(MsgUnsupported)]
  /\ isLoading' = TRUE
  /\ last' = [NoRun EXCEPT !.kind = "unsupported", !.id = clicks + 1,
                           !.before = location]
  /\ UNCHANGED <<requests, positionRequests>>
UnsupportedBranch ==
  /\ location' = [location EXCEPT !.error = Some(MsgUnsupported)]
  /\ isLoading' = FALSE
  /\ last' = [NoRun EXCEPT !.kind = "unsupported", !.id = clicks + 1,
                           !.before = location]
  /\ UNCHANGED <<requests, positionRequests>>

\* navigator.geolocation.getCurrentPosition(success, failure, options):
\* the two callbacks close over map and marker of the current render.
RequestBranch ==
  /\ location' = [location EXCEPT !.error = Null]
  /\ isLoading' = TRUE
  /\ requests' = requests \cup
       { [id |-> clicks + 1, stage |-> "positioning", capMap |-> map,
          capMarker |-> marker, before |-> location, fix |-> AnyFix,
          calls |-> 0] }
  /\ positionRequests' = positionRequests + 1
  /\ last' = [NoRun EXCEPT !.kind = "requested", !.id = clicks + 1]

\* onClick={getCurrentLocation}
getCurrentLocation ==
  /\ ~ButtonDisabled
  /\ clicks < MaxClicks
  /\ clicks' = clicks + 1
  /\ IF ~geolocationSupported THEN UnsupportedBranch ELSE RequestBranch
  /\ UNCHANGED <<map, marker, geolocationSupported, sdkLoaded, effectDue,
                 loads, maps, attached, markersCreated, geocodeCalls>>

\* switch (error.code) { ... }
ErrorMessageNoTimeout(code) ==
  MsgPrefix \o
    (CASE code = PERMISSION_DENIED -> MsgPermissionDenied
       [] code = POSITION_UNAVAILABLE -> MsgPositionUnavailable
       [] OTHER -> MsgUnknown)
ErrorMessage(code) ==
  MsgPrefix \o
    (CASE code = PERMISSION_DENIED -> MsgPermissionDenied
       [] code = POSITION_UNAVAILABLE -> MsgPositionUnavailable
       [] code = TIMEOUT -> MsgTimeout
       [] OTHER -> MsgUnknown)

\* The failure callback of getCurrentPosition.
ErrorCallbackStuck(r, code) ==
  /\ r \in requests /\ r.stage = "positioning"
  /\ code \in ErrorCodes
  /\ location' = [location EXCEPT !.error = Some(ErrorMessage(code))]
  /\ requests' = requests \ {r}
  /\ last' = [NoRun EXCEPT !.kind = "failure", !.id = r.id, !.code = code,
                           !.before = r.before]
  /\ UNCHANGED <<isLoading, map, marker, geolocationSupported, sdkLoaded,
                 effectDue, loads, maps, attached, markersCreated, clicks,
                 positionRequests, geocodeCalls>>
ErrorCallback(r, code) ==
  /\ r \in requests /\ r.stage = "positioning"
  /\ code \in ErrorCodes
  /\ location' = [location EXCEPT !.error = Some(ErrorMessage(code))]
  /\ isLoading' = FALSE
  /\ requests' = requests \ {r}
  /\ last' = [NoRun EXCEPT !.kind = "failure", !.id = r.id, !.code = code,
                           !.before = r.before]
  /\ UNCHANGED <<map, marker, geolocationSupported, sdkLoaded, effectDue,
                 loads, maps, attached, markersCreated, clicks,
                 positionRequests, geocodeCalls>>

\* The success callback up to `await getAddress(...)`: getAddress constructs
\* the geocoder (which throws when `google` is undefined) and issues the call.
PositionSuccess(r, fix) ==
  /\ r \in requests /\ r.stage = "positioning"
  /\ fix \in Fixes
  /\ requests' = (requests \ {r}) \cup
       { [r EXCEPT !.stage = "geocoding", !.fix = fix,
                   !.calls = IF sdkLoaded THEN 1 ELSE 0] }
  /\ geocodeCalls' = IF sdkLoaded THEN geocodeCalls + 1 ELSE geocodeCalls
  /\ UNCHANGED <<location, isLoading, map, marker, geolocationSupported,
                 sdkLoaded, effectDue, loads, maps, attached, markersCreated,
                 clicks, positionRequests, last>>

\* getAddress: the value its promise settles with, for each outcome of the
\* try block.  threw = TRUE would be a rejection reaching the caller.
getAddressNoCatch(outcome) ==
  IF outcome.kind = "results"
    THEN IF Len(outcome.results) >= 1
           THEN [threw |-> FALSE, value |-> outcome.results[1]]
           ELSE [threw |-> FALSE, value |-> MsgAddressNotFound]
    ELSE [threw |-> TRUE, value |-> ""]
getAddress(outcome) ==
  IF outcome.kind = "results"
    THEN IF Len(outcome.results) >= 1
           THEN [threw |-> FALSE, value |-> outcome.results[1]]
           ELSE [threw |-> FALSE, value |-> MsgAddressNotFound]
    ELSE [threw |-> FALSE, value |-> MsgAddressFailed]

\* const newLocation: LocationData = { ... }
newLocationSwapped(fix, address) ==
  [latitude |-> Some(fix.longitude), longitude |-> Some(fix.latitude),
   accuracy |-> Some(fix.accuracy), altitude |-> fix.altitude,
   altitudeAccuracy |-> fix.altitudeAccuracy, heading |-> fix.heading,
   speed |-> fix.speed, timestamp |-> Some(fix.timestamp),
   address |-> Some(address), error |-> Null]
newLocation(fix, address) ==
  [latitude |-> Some(fix.latitude), longitude |-> Some(fix.longitude),
   accuracy |-> Some(fix.accuracy), altitude |-> fix.altitude,
   altitudeAccuracy |-> fix.altitudeAccuracy, heading |-> fix.heading,
   speed |-> fix.speed, timestamp |-> Some(fix.timestamp),
   address |-> Some(address), error |-> Null]

\* if (marker) { marker.setMap(null); }
MarkerDetachSkipped(atts, m) == atts
MarkerDetach(atts, m) == { a \in atts : a.id /= m }

\* if (map) { setCenter; setZoom; detach; new Marker; setMarker }
MapUpdate(r) ==
  IF r.capMap /= NoHandle
    THEN /\ maps' = [maps EXCEPT ![r.capMap] =
                       [center |-> [lat |-> r.fix.latitude, lng |-> r.fix.longitude],
                        zoom |-> FixZoom]]
         /\ attached' = MarkerDetach(attached, r.capMarker) \cup
              { [id |-> markersCreated + 1, map |-> r.capMap,
                 position |-> [lat |-> r.fix.latitude, lng |-> r.fix.longitude]] }
         /\ markersCreated' = markersCreated + 1
         /\ marker' = markersCreated + 1
    ELSE UNCHANGED <<maps, attached, markersCreated, marker>>

\* The geocoding call settles and the success callback runs to its end.
GeocodeSettle(r, outcome) ==
  /\ r \in requests /\ r.stage = "geocoding"
  /\ outcome \in (IF r.calls = 1 THEN GeocodeOutcomes ELSE {SdkMissing})
  /\ requests' = requests \ {r}
  /\ LET res == getAddress(outcome) IN
       IF res.threw
         THEN UNCHANGED <<location, isLoading, maps, attached, markersCreated,
                          marker, last>>
         ELSE /\ location' = newLocation(r.fix, res.value)
              /\ MapUpdate(r)
              /\ isLoading' = FALSE
              /\ last' = [NoRun EXCEPT !.kind = "success", !.id = r.id,
                            !.fix = r.fix, !.outcome = outcome,
                            !.calls = r.calls, !.address = res.value,
                            !.capMap = r.capMap, !.capMarker = r.capMarker,
                            !.mapAtCompletion = map]
  /\ UNCHANGED <<map, geolocationSupported, sdkLoaded, effectDue, loads,
                 clicks, positionRequests, geocodeCalls>>

\* <a href={`https://www.google.com/maps?q=${latitude},${longitude}`}>,
\* rendered under {location.latitude && location.longitude && (...)}:
\* Null when the link is not rendered, else the pair in its query string.
MapLink ==
  IF Truthy(location.latitude) /\ Truthy(location.longitude)
    THEN Some([lat |-> location.latitude[1], lng |-> location.longitude[1]])
    ELSE Null

PlatformCallback ==
  \E r \in requests :
    \/ \E fix \in Fixes : PositionSuccess(r, fix)
    \/ \E code \in ErrorCodes : ErrorCallback(r, code)

GeocodeCompletion ==
  \E r \in requests : \E outcome \in GeocodeOutcomes \cup {SdkMissing} :
    GeocodeSettle(r, outcome)

Next ==
  \/ EffectFire
  \/ \E k \in 1..Len(loads) : LoadComplete(k)
  \/ getCurrentLocation
  \/ PlatformCallback
  \/ GeocodeCompletion

Spec == Init /\ [][Next]_vars

\* The platform invokes exactly one of the two callbacks of every request,
\* and every geocoding call settles.
LiveSpec ==
  Spec /\ WF_vars(PlatformCallback) /\ WF_vars(GeocodeCompletion)

\* ------------------------------------------------------------------ claims
SnapshotFields ==
  {"latitude", "longitude", "accuracy", "altitude", "altitudeAccuracy",
   "heading", "speed", "timestamp", "address"}

\* C1: once the failure callback has run for a platform failure code, error
\* holds the message of that code (permission denied, position unavailable,
\* timeout, otherwise unknown), isLoading is false, and the eight numeric
\* fields and the address are those the snapshot had before
\* getCurrentLocation was invoked.
C1_FailureKeepsFix ==
  last.kind = "failure" =>
    /\ location.error =
         Some(IF last.code = 1 THEN "failed to get location: use of location was denied"
              ELSE IF last.code = 2 THEN "failed to get location: location is unavailable"
              ELSE IF last.code = 3 THEN "failed to get location: timed out"
              ELSE "failed to get location: an unknown error occurred")
    /\ isLoading = FALSE
    /\ \A f \in SnapshotFields : location[f] = last.before[f]

C1_Witness ==
  /\ last.kind = "failure"
  /\ last.code = TIMEOUT
  /\ last.before.latitude /= Null
  /\ last.before.address /= Null

\* C2: without the geolocation capability, getCurrentLocation ends with the
\* "unsupported" error and isLoading false, every other field of the
\* snapshot as before, no position request in flight or ever issued, and no
\* geocoding call issued.
C2_UnsupportedIsSynchronous ==
  last.kind = "unsupported" =>
    /\ location = [last.before EXCEPT !.error = Some(MsgUnsupported)]
    /\ isLoading = FALSE
    /\ requests = {}
    /\ positionRequests = 0
    /\ geocodeCalls = 0

C2_Witness ==
  /\ last.kind = "unsupported"
  /\ last.id >= 2
  /\ last.before.error = Some(MsgUnsupported)

\* C3: after a successful fix whose geocoding response has at least one
\* result, the snapshot consists of the fix's numeric fields and timestamp,
\* the first result's formatted address and a null error, and isLoading is
\* false.
C3_SuccessReplacesSnapshot ==
  (last.kind = "success" /\ last.outcome.kind = "results"
     /\ Len(last.outcome.results) >= 1) =>
    /\ location =
         [latitude |-> Some(last.fix.latitude),
          longitude |-> Some(last.fix.longitude),
          accuracy |-> Some(last.fix.accuracy),
          altitude |-> last.fix.altitude,
          altitudeAccuracy |-> last.fix.altitudeAccuracy,
          heading |-> last.fix.heading,
          speed |-> last.fix.speed,
          timestamp |-> Some(last.fix.timestamp),
          address |-> Some(Head(last.outcome.results)),
          error |-> Null]
    /\ isLoading = FALSE

C3_Witness ==
  /\ last.kind = "success"
  /\ last.outcome.kind = "results"
  /\ Len(last.outcome.results) = 2
  /\ last.id >= 2
  /\ last.fix.altitude = Null

\* C4: getAddress always resolves to a string: the first formatted address
\* when there is a result, the "not found" string for an empty result list,
\* the "lookup failed" string when the call raises or the SDK is not loaded;
\* the service is called at most once per invocation (not at all without the
\* SDK); and a request leaves the pipeline only through its snapshot update.
C4_AddressAlwaysResolves ==
  /\ last.kind = "success" =>
       /\ location.address =
            Some(IF last.outcome.kind = "results" /\ Len(last.outcome.results) >= 1
                   THEN last.outcome.results[1]
                 ELSE IF last.outcome.kind = "results"
                   THEN MsgAddressNotFound
                 ELSE MsgAddressFailed)
       /\ last.calls <= 1
       /\ (last.calls = 0 <=> last.outcome = SdkMissing)
       /\ location.latitude = Some(last.fix.latitude)
       /\ isLoading = FALSE
  /\ last.kind = "requested" => \E r \in requests : r.id = last.id
  /\ geocodeCalls <= positionRequests

C4_Witness ==
  /\ last.kind = "success"
  /\ last.outcome.kind = "raise"
  /\ location.address = Some(MsgAddressFailed)

C4_WitnessNoSdk ==
  /\ last.kind = "success"
  /\ last.outcome = SdkMissing
  /\ location.address = Some(MsgAddressFailed)

\* C5: at most one marker is attached to a map; once a marker has been
\* placed, the attached marker is the newest one constructed, it is the one
\* the view holds, and after a fix that updated the map it stands at that
\* fix's coordinates.
C5_AtMostOneMarker ==
  /\ Cardinality(attached) <= 1
  /\ markersCreated >= 1 =>
       /\ \E a \in attached : a.id = markersCreated
       /\ marker = markersCreated
  /\ (last.kind = "success" /\ last.capMap /= NoHandle) =>
       \A a \in attached :
         /\ a.map = last.capMap
         /\ a.position = [lat |-> last.fix.latitude, lng |-> last.fix.longitude]

C5_Witness ==
  /\ markersCreated >= 2
  /\ Cardinality(attached) = 1
  /\ last.kind = "success"
  /\ last.capMarker /= NoHandle

\* C6: the external map link is absent whenever latitude or longitude is
\* null, and present, carrying the stored latitude and longitude, whenever
\* both are non-null (0 included).
C6_LinkIffBothNonNull ==
  /\ (location.latitude = Null \/ location.longitude = Null) => MapLink = Null
  /\ (location.latitude /= Null /\ location.longitude /= Null) =>
       MapLink = Some([lat |-> location.latitude[1], lng |-> location.longitude[1]])

\* C7: every invocation of getCurrentLocation is eventually followed by the
\* idle state: no request in flight and isLoading false.
C7_EventuallyIdle ==
  (isLoading \/ requests /= {}) ~> (~isLoading /\ requests = {})

C7_Witness ==
  /\ last.kind \in {"success", "failure"}
  /\ last.id = clicks
  /\ clicks >= 1
  /\ ~isLoading
  /\ requests = {}

\* C8: after a successful fix that completed while the view held a map
\* instance, that map is centered on the fix, its zoom is 17 and a marker at
\* the fix coordinates is attached to it.
C8_MapFollowsEveryFix ==
  (last.kind = "success" /\ last.mapAtCompletion /= NoHandle) =>
    /\ maps[last.mapAtCompletion].center =
         [lat |-> last.fix.latitude, lng |-> last.fix.longitude]
    /\ maps[last.mapAtCompletion].zoom = 17
    /\ \E a \in attached :
         /\ a.map = last.mapAtCompletion
         /\ a.position = [lat |-> last.fix.latitude, lng |-> last.fix.longitude]

\* C9: at most one map instance is ever created for the mounted view.
C9_AtMostOneMap ==
  Len(maps) <= 1

\* C10: at most one request is in flight; while one is, isLoading is true,
\* and it is the request triggered last.
C10_SinglePipeline ==
  /\ Cardinality(requests) <= 1
  /\ requests /= {} => isLoading
  /\ \A r \in requests : r.id = clicks

C10_Witness ==
  /\ clicks >= 2
  /\ \E r \in requests : r.stage = "geocoding"
  /\ isLoading

====
